---- MODULE Spec2Model ----
(***************************************************************************)
(* geminikit: the browser session (GeminiBrowser), the page interaction    *)
(* driver (GeminiClient) and the top-level generateImage, as one state     *)
(* machine.  The browser engine, the page under automation, the file       *)
(* system and the watermark tool are the environment: every answer they    *)
(* can give is a nondeterministic choice of the step that asks.            *)
(* Calls on one client are awaited one after the other.  context.close(),  *)
(* page.close() and the fs calls of removeWatermark are taken to succeed.  *)
(***************************************************************************)
EXTENDS Integers, Sequences, FiniteSets, TLC

----------------------------------------------------------------------------
(* Bounds of the model *)

\* contexts the engine may hold open at once (connect without disconnect)
MaxContexts == 2
\* caller-supplied timeouts are the multiples of half a poll interval up to this many
MaxTimeoutSteps == 3
\* tabs the persistent profile can restore at launch
MaxRestoredTabs == 1

(* Program constants *)

LoginMaxAttempts == 60
DefaultTimeoutMs == 120000
PollIntervalMs == 3000
DownloadMaxAttempts == 2

----------------------------------------------------------------------------
(* errors.ts *)

GeminiError(message, code) ==
  [kind |-> "GeminiError", code |-> code, msg |-> message, imagePath |-> <<>>]

AuthenticationError(message) == GeminiError(message, "AUTH_ERROR")

GenerationError(message) == GeminiError(message, "GENERATION_ERROR")

\* a plain Error or an engine error (Playwright's TimeoutError): no code field
UntypedError(message) ==
  [kind |-> "Error", code |-> "NONE", msg |-> message, imagePath |-> <<>>]

Ok == [kind |-> "ok", code |-> "NONE", msg |-> "", imagePath |-> <<>>]

\* generateImage returns { imagePath, width, height }
Returned(p) == [kind |-> "ok", code |-> "NONE", msg |-> "", imagePath |-> p]

TypedCodes == {"AUTH_ERROR", "GENERATION_ERROR", "BROWSER_ERROR"}

----------------------------------------------------------------------------
(* Paths: a path is the sequence of its components, absolute when it      *)
(* starts with "/".  path.resolve joins a relative path to the working     *)
(* directory and normalises "." and "..".                                  *)

Cwd == <<"/", "work">>

IsAbsolute(p) == Len(p) > 0 /\ p[1] = "/"

RECURSIVE Normalize(_, _)
Normalize(acc, rest) ==
  IF rest = <<>> THEN acc
  ELSE LET c == Head(rest) IN
       IF c = "." THEN Normalize(acc, Tail(rest))
       ELSE IF c = ".."
            THEN Normalize(IF Len(acc) > 1 THEN SubSeq(acc, 1, Len(acc) - 1) ELSE acc,
                           Tail(rest))
            ELSE Normalize(Append(acc, c), Tail(rest))

Resolve(p) ==
  IF IsAbsolute(p) THEN Normalize(<<"/">>, Tail(p))
  ELSE Normalize(Cwd, p)

Dirname(p) == IF Len(p) > 1 THEN SubSeq(p, 1, Len(p) - 1) ELSE p

\* two spellings of one file in a directory that does not exist yet: relative
\* with "." and ".." to normalise, and absolute
OutputPaths ==
  { <<".", "tmp", "..", "img", "out.png">>,
    <<"/", "work", "img", "out.png">> }

Targets == { Resolve(p) : p \in OutputPaths }

----------------------------------------------------------------------------
(* Inputs *)

HeadlessOptions == {"undef", "true", "false"}

\* options.timeout: absent, or a number of milliseconds
TimeoutOptions ==
  {[given |-> FALSE, ms |-> 0]}
    \cup { [given |-> TRUE, ms |-> (k * PollIntervalMs) \div 2] : k \in 0..MaxTimeoutSteps }

NoTimeout == [given |-> FALSE, ms |-> 0]

NoArgs == [headless |-> "undef", timeout |-> NoTimeout, outputPath |-> <<>>]

\* what a login check can see: the URL (which substrings it includes) and
\* whether any chat-input selector matches; the evaluation may also throw
LoginPages ==
  [accounts : BOOLEAN, gemini : BOOLEAN, input : BOOLEAN, throws : BOOLEAN]

NoLoginPage == [accounts |-> FALSE, gemini |-> FALSE, input |-> FALSE, throws |-> FALSE]

\* what one poll of the generation wait can see: the refusal evaluation finds
\* a refusal phrase, finds none, or throws; the image locator is visible or not
PollPages == [refusal : {"phrase", "none", "throws"}, image : BOOLEAN]

NoPollPage == [refusal |-> "none", image |-> FALSE]

\* which download controls are visible at a click attempt
DownloadControls == [primary : BOOLEAN, fallback : BOOLEAN]

NoControls == [primary |-> FALSE, fallback |-> FALSE]

\* what the watermark tool can do: its entry script exists or not, how the
\* process ends, and what it leaves at the temporary output path
ToolOutcomes ==
  {[script |-> FALSE, exit |-> "not_run", tmp |-> "none"]}
    \cup [script : {TRUE}, exit : {"zero"}, tmp : {"none", "clean"}]
    \cup [script : {TRUE}, exit : {"nonzero", "timeout"}, tmp : {"none", "partial"}]
    \cup {[script |-> TRUE, exit |-> "spawn_error", tmp |-> "none"]}

\* removeWatermark has not been called
NoTool == [script |-> FALSE, exit |-> "not_called", tmp |-> "none"]

----------------------------------------------------------------------------
(* getImageDimensions: a file is the sequence of its bytes *)

ZeroDims == [width |-> 0, height |-> 0]

NoFile == [readable |-> FALSE, bytes |-> <<>>]

\* buf.readUInt32BE(off), buf.readUInt16BE(off); off counts from 0
ReadUInt32BE(buf, off) ==
  buf[off + 1] * 16777216 + buf[off + 2] * 65536 + buf[off + 3] * 256 + buf[off + 4]

ReadUInt16BE(buf, off) == buf[off + 1] * 256 + buf[off + 2]

\* const header = Buffer.alloc(24); fs.readSync(fd, header, 0, 24, 0):
\* what the file does not supply stays zero
ReadHeader(bytes) == [i \in 1..24 |-> IF i <= Len(bytes) THEN bytes[i] ELSE 0]

\* for (let i = 0; i < buf.length - 9; i++) if (buf[i] === 0xff && buf[i + 1] === 0xc0)
FrameMarkers(bytes) ==
  { i \in 0..(Len(bytes) - 10) : bytes[i + 1] = 255 /\ bytes[i + 2] = 192 }

FirstOf(S) == CHOOSE i \in S : \A j \in S : i <= j

\* if (header[0] === 0x89 && header[1] === 0x50)
PngCheck(header) == header[1] = 137 /\ header[2] = 80

\* getImageDimensions: every throw inside is caught and the zero pair returned
GetImageDimensions(f) ==
  IF ~f.readable THEN ZeroDims
  ELSE LET header == ReadHeader(f.bytes) IN
       IF PngCheck(header)
       THEN [width |-> ReadUInt32BE(header, 16), height |-> ReadUInt32BE(header, 20)]
       ELSE LET found == FrameMarkers(f.bytes) IN
            IF found = {} THEN ZeroDims
            ELSE LET i == FirstOf(found) IN
                 [width |-> ReadUInt16BE(f.bytes, i + 7),
                  height |-> ReadUInt16BE(f.bytes, i + 5)]

(* files to read *)

Bytes32BE(n) == <<n \div 16777216, (n \div 65536) % 256, (n \div 256) % 256, n % 256>>

Bytes16BE(n) == <<(n \div 256) % 256, n % 256>>

PngSignature == <<137, 80, 78, 71, 13, 10, 26, 10>>

\* signature, IHDR chunk (length 13, type, width, height, five more bytes, CRC)
PngFile(w, h) ==
  PngSignature \o <<0, 0, 0, 13, 73, 72, 68, 82>> \o Bytes32BE(w) \o Bytes32BE(h)
    \o <<8, 6, 0, 0, 0>> \o <<1, 2, 3, 4>>

\* SOI, a short APP0 segment, the SOF0 segment (length, precision, height,
\* width, one component), EOI
JpegFile(w, h) ==
  <<255, 216>> \o <<255, 224, 0, 4, 74, 70>>
    \o <<255, 192, 0, 11, 8>> \o Bytes16BE(h) \o Bytes16BE(w) \o <<1, 1, 17, 0>>
    \o <<255, 217>>

PngSizes == {1, 512, 70000}
JpegSizes == {1, 512, 1024}

Prefixes(bytes) == { SubSeq(bytes, 1, n) : n \in 0..Len(bytes) }

\* text, a GIF header, bytes that only begin like a PNG, and binary data
\* that happens to hold FF C0
NonImages ==
  { <<72, 101, 108, 108, 111>>,
    <<71, 73, 70, 56, 57, 97, 1, 0, 1, 0, 0, 0, 0, 0>>,
    <<137, 80>> \o [i \in 1..22 |-> 7],
    <<0, 1, 255, 192, 9, 9, 9, 1, 2, 3, 4, 9, 9, 9>> }

\* whole and cut-off PNG and JPEG files, other files, and a file that cannot
\* be opened
ImageFiles ==
  { [readable |-> TRUE, bytes |-> b] :
      b \in UNION { Prefixes(PngFile(w, h)) : w \in PngSizes, h \in PngSizes }
            \cup UNION { Prefixes(JpegFile(w, h)) : w \in JpegSizes, h \in JpegSizes }
            \cup NonImages }
    \cup {NoFile}

----------------------------------------------------------------------------
(* getErrorGuidance: a text is the sequence of its lines *)

HasErrorCode(e) == e.code # "NONE"

\* error instanceof GeminiError
IsGeminiError(e) == e.kind = "GeminiError"

GenericGuidance == <<"An unexpected error occurred. Please try again.">>

RecoverySteps(code) ==
  CASE code = "AUTH_ERROR" ->
         <<"1. Clear browser profile: rm -rf ~/.geminikit/browser-profile",
           "2. Run with headless=false to open browser for login",
           "3. Log in to Google manually",
           "4. Session will be saved for future headless use">>
    [] code = "GENERATION_ERROR" ->
         <<"1. Check if Gemini is available at gemini.google.com",
           "2. Try a different prompt (some content may be blocked)",
           "3. Verify your Google account has access to Gemini">>
    [] code = "BROWSER_ERROR" ->
         <<"1. Kill any stuck browser processes",
           "2. Remove browser lock: rm -f ~/.geminikit/browser-profile/SingletonLock",
           "3. Try again">>

GetErrorGuidance(e) ==
  IF ~IsGeminiError(e) THEN GenericGuidance
  ELSE IF e.code \in TypedCodes
       THEN <<e.msg, "", "Recovery steps:">> \o RecoverySteps(e.code)
       ELSE <<e.msg>>

\* values to explain: GeminiErrors of the three kinds and of other codes,
\* plain Errors, an object that merely carries a code, a thrown non-error
GuidanceMessages == {"Login timeout after 5 minutes.", "Download failed: canceled"}

GuidanceInputs ==
  { GeminiError(m, c) : m \in GuidanceMessages, c \in TypedCodes \cup {"RATE_LIMIT", ""} }
    \cup { UntypedError(m) : m \in GuidanceMessages }
    \cup { [kind |-> "Error", code |-> c, msg |-> m, imagePath |-> <<>>] :
             m \in GuidanceMessages, c \in TypedCodes }
    \cup { [kind |-> "string", code |-> "NONE", msg |-> "", imagePath |-> <<>>] }

----------------------------------------------------------------------------
VARIABLES
  context,        \* GeminiBrowser.context is non-null
  page,           \* GeminiBrowser._page is non-null
  openContexts,   \* contexts launched and not yet closed (engine side)
  launchMode,     \* how the held context was launched: "none", "headless", "visible"
  everConnected,  \* a launch has succeeded on this client
  pages,          \* pages open in the held context
  loginChecked,   \* ensureLoggedIn has returned normally on the held page
  files,          \* content of the file at each target path: "absent", "orig", "clean"
  dirs,           \* directories that exist
  tmpFile,        \* content of <filePath>.clean.png: "none", "partial", "clean"
  pc,             \* position inside the running operation, "idle" between calls
  op,             \* the running operation; the last completed one when pc = "idle"
  args,           \* its arguments
  res,            \* what the last completed operation returned or threw
  fault,          \* the bound whose exhaustion ended the last operation, or "none"
  repeated,       \* the running disconnect directly follows a disconnect
  prevFailed,     \* the generateImage now navigating directly follows one that threw a GenerationError
  top,            \* position of the top-level generateImage: "none", "connect", "generate", "finally"
  topPending,     \* the result or error the top-level call delivers after finally
  topBase,        \* contexts open when the top-level call began
  topDisconnects, \* disconnect calls made by the running / last top-level call
  loginPolls,     \* iterations of the login loop made
  failedPolls,    \* of which found no login
  loginPage,      \* the page as the login check that ended ensureLoggedIn saw it
  elapsed,        \* Date.now() - startTime
  pollPage,       \* the page as the current poll of the generation wait sees it
  imageFound,
  attempts,       \* passes of the download loop made
  firstEvent,     \* the first pass yielded a download event
  download,       \* the download loop has assigned a Download
  clicks,         \* clicks made on a download control
  lastClick,      \* what the last clickDownloadButton did
  located,        \* some attempt found a download control
  savedPath,      \* where download.saveAs wrote, <<>> if nowhere
  tool,           \* what the watermark tool did in this call
  navigated,      \* this call's page.goto has succeeded
  seenAtWait,     \* the download controls on the page when downloadBtn.waitFor gave up
  failure,        \* download.failure(): "unchecked", "clear", "set"
  signal,         \* the failure signal the engine holds for the download: "none", "canceled"
  probe,          \* which pure function is exercised: "none", "dimensions", "guidance"
  answered,       \* it has been applied
  imageFile,      \* the file getImageDimensions is given
  dims,           \* what it returned
  error,          \* the value getErrorGuidance is given
  guidance        \* what it returned, line by line

browserVars == <<context, page, openContexts, launchMode, everConnected, pages>>
clientVars == <<browserVars, loginChecked>>
fsVars == <<files, dirs, tmpFile>>
ctlVars == <<pc, op, args, res, fault, repeated, prevFailed>>
topVars == <<top, topPending, topBase, topDisconnects>>
loginVars == <<loginPolls, failedPolls, loginPage>>
traceVars == <<navigated, seenAtWait, failure, signal>>
workVars == <<elapsed, pollPage, imageFound, attempts, firstEvent, download, clicks, lastClick,
              located, savedPath, tool>>
genVars == <<workVars, traceVars>>

pureVars == <<probe, answered, imageFile, dims, error, guidance>>

vars == <<clientVars, fsVars, ctlVars, topVars, loginVars, genVars, pureVars>>

----------------------------------------------------------------------------
Pending == [kind |-> "pending", code |-> "NONE", msg |-> "", imagePath |-> <<>>]

\* a client just constructed, nothing called yet
ProgramInit ==
  /\ context = FALSE
  /\ page = FALSE
  /\ openContexts = 0
  /\ launchMode = "none"
  /\ everConnected = FALSE
  /\ pages = 0
  /\ loginChecked = FALSE
  /\ files = [t \in Targets |-> "absent"]
  /\ dirs = {Cwd}
  /\ tmpFile = "none"
  /\ pc = "idle"
  /\ op = "none"
  /\ args = NoArgs
  /\ res = Pending
  /\ fault = "none"
  /\ repeated = FALSE
  /\ prevFailed = FALSE
  /\ top = "none"
  /\ topPending = Pending
  /\ topBase = 0
  /\ topDisconnects = 0
  /\ loginPolls = 0
  /\ failedPolls = 0
  /\ loginPage = NoLoginPage
  /\ elapsed = 0
  /\ pollPage = NoPollPage
  /\ imageFound = FALSE
  /\ attempts = 0
  /\ firstEvent = FALSE
  /\ download = FALSE
  /\ clicks = 0
  /\ lastClick = "none"
  /\ located = FALSE
  /\ savedPath = <<>>
  /\ tool = NoTool
  /\ navigated = FALSE
  /\ seenAtWait = NoControls
  /\ failure = "unchecked"
  /\ signal = "none"

Init ==
  /\ ProgramInit
  /\ probe = "none"
  /\ answered = FALSE
  /\ imageFile = NoFile
  /\ dims = ZeroDims
  /\ error = Ok
  /\ guidance = <<>>

\* the locals of a call start afresh
FreshLocals ==
  /\ loginPolls' = 0
  /\ failedPolls' = 0
  /\ loginPage' = NoLoginPage
  /\ elapsed' = 0
  /\ pollPage' = NoPollPage
  /\ imageFound' = FALSE
  /\ attempts' = 0
  /\ firstEvent' = FALSE
  /\ download' = FALSE
  /\ clicks' = 0
  /\ lastClick' = "none"
  /\ located' = FALSE
  /\ savedPath' = <<>>
  /\ tool' = NoTool
  /\ navigated' = FALSE
  /\ seenAtWait' = NoControls
  /\ failure' = "unchecked"
  /\ signal' = "none"

\* the running operation returns r (or throws it) to its caller
Finish(r, f) ==
  /\ pc' = "idle"
  /\ res' = r
  /\ fault' = f
  /\ UNCHANGED <<op, args, repeated, prevFailed>>

\* a call of operation o with arguments a begins at position start
Invoke(o, a, start) ==
  /\ pc' = start
  /\ op' = o
  /\ args' = a
  /\ res' = Pending
  /\ fault' = "none"
  /\ repeated' = (o = "disconnect" /\ op = "disconnect")
  /\ prevFailed' = (o = "generateImage" /\ op = "generateImage"
                      /\ res.code = "GENERATION_ERROR")
  /\ FreshLocals

\* the running operation moves on to position next; once its navigation is
\* behind it, what the call before it did is no longer recorded
Goto(next) ==
  /\ pc' = next
  /\ prevFailed' = (prevFailed /\ next = "g_overlay")
  /\ UNCHANGED <<op, args, res, fault, repeated>>

----------------------------------------------------------------------------
(* GeminiBrowser *)

\* headless: options.headless ?? false
LaunchHeadless(h) == IF h = "true" THEN "headless" ELSE "visible"

\* for (const p of existingPages) await p.close(): of n restored tabs none
\* is left
RECURSIVE CloseExistingPages(_)
CloseExistingPages(n) == IF n = 0 THEN 0 ELSE CloseExistingPages(n - 1)

\* GeminiBrowser.connect: launch the persistent context, close the tabs it
\* restored, open one fresh page.  Nothing looks at this.context before the
\* launch: a context already held is overwritten, not closed.
BrowserConnect ==
  /\ UNCHANGED pureVars
  /\ pc = "c_launch"
  /\ UNCHANGED <<fsVars, topVars, loginVars, genVars>>
  /\ \E outcome \in {"launch_fails", "page_fails", "ok"}, restored \in 0..MaxRestoredTabs :
       IF outcome = "launch_fails"
       THEN /\ Finish(UntypedError("browserType.launchPersistentContext failed"), "none")
            /\ UNCHANGED clientVars
       ELSE /\ context' = TRUE
            /\ openContexts' = openContexts + 1
            /\ launchMode' = LaunchHeadless(args.headless)
            /\ everConnected' = TRUE
            /\ IF outcome = "page_fails"
               THEN /\ Finish(UntypedError("context.newPage failed"), "none")
                    /\ pages' = CloseExistingPages(restored)
                    /\ UNCHANGED <<page, loginChecked>>
               ELSE /\ page' = TRUE
                    /\ pages' = CloseExistingPages(restored) + 1
                    /\ loginChecked' = FALSE
                    /\ Goto("c_goto")

DisconnectKeepsPage ==
  /\ UNCHANGED pureVars
  /\ pc = "d_close"
  /\ UNCHANGED <<everConnected, fsVars, top, topPending, topBase, loginVars, genVars>>
  /\ topDisconnects' = IF top = "none" THEN topDisconnects ELSE topDisconnects + 1
  /\ IF context
     THEN /\ openContexts' = openContexts - 1
          /\ context' = FALSE
          /\ launchMode' = "none"
          /\ pages' = 0
          /\ UNCHANGED <<page, loginChecked>>
     ELSE UNCHANGED <<openContexts, context, page, launchMode, pages, loginChecked>>
  /\ Finish(Ok, "none")

\* GeminiBrowser.disconnect (through GeminiClient.disconnect)
BrowserDisconnect ==
  /\ UNCHANGED pureVars
  /\ pc = "d_close"
  /\ UNCHANGED <<everConnected, fsVars, top, topPending, topBase, loginVars, genVars>>
  /\ topDisconnects' = IF top = "none" THEN topDisconnects ELSE topDisconnects + 1
  /\ IF context
     THEN /\ openContexts' = openContexts - 1
          /\ context' = FALSE
          /\ page' = FALSE
          /\ launchMode' = "none"
          /\ pages' = 0
          /\ loginChecked' = FALSE
     ELSE UNCHANGED <<openContexts, context, page, launchMode, pages, loginChecked>>
  /\ Finish(Ok, "none")

\* get page(): throws a plain Error when there is no page
NotConnected == UntypedError("Not connected - call connect() first")

----------------------------------------------------------------------------
(* GeminiClient.connect *)

ConnectGotoClosesOnFailure ==
  /\ UNCHANGED pureVars
  /\ pc = "c_goto"
  /\ UNCHANGED <<everConnected, loginChecked, fsVars, topVars, loginVars, workVars,
                 seenAtWait, failure, signal>>
  /\ IF ~page
     THEN /\ Finish(NotConnected, "none")
          /\ UNCHANGED <<navigated, context, page, openContexts, launchMode, pages>>
     ELSE \E ok \in BOOLEAN :
            /\ navigated' = ok
            /\ IF ok
               THEN /\ Goto("c_consent")
                    /\ UNCHANGED <<context, page, openContexts, launchMode, pages>>
               ELSE /\ Finish(UntypedError("page.goto failed"), "none")
                    /\ context' = FALSE
                    /\ page' = FALSE
                    /\ openContexts' = IF context THEN openContexts - 1 ELSE openContexts
                    /\ launchMode' = "none"
                    /\ pages' = 0

\* page.goto and the settle delay
ConnectGoto ==
  /\ UNCHANGED pureVars
  /\ pc = "c_goto"
  /\ UNCHANGED <<clientVars, fsVars, topVars, loginVars, workVars, seenAtWait, failure, signal>>
  /\ IF ~page
     THEN /\ Finish(NotConnected, "none")
          /\ UNCHANGED navigated
     ELSE \E ok \in BOOLEAN :
            /\ navigated' = ok
            /\ IF ok THEN Goto("c_consent")
               ELSE Finish(UntypedError("page.goto failed"), "none")

\* handleCookieConsent: never throws; absence of the control is no error
HandleCookieConsent ==
  /\ UNCHANGED pureVars
  /\ pc = "c_consent"
  /\ UNCHANGED <<clientVars, fsVars, topVars, loginVars, genVars>>
  /\ Goto("c_login0")

\* the initial check of ensureLoggedIn
InitialLoggedIn(pg) == ~pg.accounts /\ pg.input

\* the check of one iteration of the login loop; an exception counts as no
PollLoggedIn(pg) == ~pg.throws /\ pg.gemini /\ pg.input

EnsureLoggedInFirst ==
  /\ UNCHANGED pureVars
  /\ pc = "c_login0"
  /\ UNCHANGED <<browserVars, fsVars, topVars, genVars, loginPolls, failedPolls>>
  /\ IF ~page
     THEN /\ Finish(NotConnected, "none")
          /\ UNCHANGED <<loginPage, loginChecked>>
     ELSE \E pg \in LoginPages :
            IF pg.throws
            THEN /\ Finish(UntypedError("page.evaluate failed"), "none")
                 /\ loginPage' = pg
                 /\ UNCHANGED loginChecked
            ELSE IF InitialLoggedIn(pg)
                 THEN /\ Finish(Ok, "none")
                      /\ loginPage' = pg
                      /\ loginChecked' = TRUE
                 ELSE /\ Goto("c_poll")
                      /\ UNCHANGED <<loginPage, loginChecked>>

LoginLoopOneMore(i) == i <= LoginMaxAttempts

\* for (let i = 0; i < 60; i++)
LoginLoopContinues(i) == i < LoginMaxAttempts

\* one iteration of the login loop, or its exhaustion
EnsureLoggedInPoll ==
  /\ UNCHANGED pureVars
  /\ pc = "c_poll"
  /\ UNCHANGED <<browserVars, fsVars, topVars, genVars>>
  /\ IF LoginLoopContinues(loginPolls)
     THEN \E pg \in LoginPages :
            /\ loginPolls' = loginPolls + 1
            /\ IF PollLoggedIn(pg)
               THEN /\ Finish(Ok, "none")
                    /\ loginPage' = pg
                    /\ loginChecked' = TRUE
                    /\ UNCHANGED failedPolls
               ELSE /\ failedPolls' = failedPolls + 1
                    /\ Goto("c_poll")
                    /\ UNCHANGED <<loginPage, loginChecked>>
     ELSE /\ Finish(AuthenticationError("Login timeout after 5 minutes."), "login")
          /\ UNCHANGED <<loginVars, loginChecked>>

----------------------------------------------------------------------------
(* GeminiClient.generateImage *)

\* const timeout = options.timeout ?? 120000
EffectiveTimeout(t) == IF t.given THEN t.ms ELSE DefaultTimeoutMs

\* this.page, then the navigation to a fresh chat and the settle delay
GenerateGoto ==
  /\ UNCHANGED pureVars
  /\ pc = "g_page"
  /\ UNCHANGED <<clientVars, fsVars, topVars, loginVars, workVars, seenAtWait, failure, signal>>
  /\ IF ~page
     THEN /\ Finish(NotConnected, "none")
          /\ UNCHANGED navigated
     ELSE \E ok \in BOOLEAN :
            /\ navigated' = ok
            /\ IF ok THEN Goto("g_overlay")
               ELSE Finish(UntypedError("page.goto failed"), "none")

\* dismissOverlays: never throws
DismissOverlays ==
  /\ UNCHANGED pureVars
  /\ pc = "g_overlay"
  /\ UNCHANGED <<clientVars, fsVars, topVars, loginVars, genVars>>
  /\ Goto("g_submit")

SubmitPromptMakesDir ==
  /\ UNCHANGED pureVars
  /\ pc = "g_submit"
  /\ UNCHANGED <<clientVars, files, tmpFile, topVars, loginVars, traceVars, pollPage, imageFound,
                 attempts, firstEvent, download, clicks, lastClick, located, savedPath, tool>>
  /\ \E ok \in BOOLEAN :
       IF ok THEN /\ elapsed' = 0
                  /\ dirs' = dirs \cup {Dirname(Resolve(args.outputPath))}
                  /\ Goto("g_loop")
       ELSE /\ Finish(UntypedError("locator.click: Timeout exceeded"), "none")
            /\ UNCHANGED <<elapsed, dirs>>

\* input.click, input.fill, Enter; then startTime = Date.now()
SubmitPrompt ==
  /\ UNCHANGED pureVars
  /\ pc = "g_submit"
  /\ UNCHANGED <<clientVars, fsVars, topVars, loginVars, traceVars, pollPage, imageFound,
                 attempts, firstEvent, download, clicks, lastClick, located, savedPath, tool>>
  /\ \E ok \in BOOLEAN :
       IF ok THEN /\ elapsed' = 0
                  /\ Goto("g_loop")
       ELSE /\ Finish(UntypedError("locator.click: Timeout exceeded"), "none")
            /\ UNCHANGED elapsed

ElapsedStuck(e) == e

\* await page.waitForTimeout(3000): the clock has moved on by one interval
\* when the loop condition reads it again
ElapsedAfterPoll(e) == e + PollIntervalMs

\* while (Date.now() - startTime < timeout): wait one interval; after the
\* loop, if (!imageFound) throw
WaitLoop ==
  /\ UNCHANGED pureVars
  /\ pc = "g_loop"
  /\ UNCHANGED <<clientVars, fsVars, topVars, loginVars, traceVars, pollPage, imageFound,
                 attempts, firstEvent, download, clicks, lastClick, located, savedPath, tool>>
  /\ IF elapsed < EffectiveTimeout(args.timeout)
     THEN /\ elapsed' = ElapsedAfterPoll(elapsed)
          /\ Goto("g_refusal")
     ELSE /\ Finish(GenerationError("Image generation timed out after ${timeout / 1000}s"),
                    "gen_timeout")
          /\ UNCHANGED elapsed

RefusalVerdictImageFirst(pg) ==
  IF pg.image THEN "continue"
  ELSE IF pg.refusal = "throws" THEN "error"
       ELSE IF pg.refusal = "phrase" THEN "refused" ELSE "continue"

\* the refusal evaluation of one poll and what follows from it
RefusalVerdict(pg) ==
  IF pg.refusal = "throws" THEN "error"
  ELSE IF pg.refusal = "phrase" THEN "refused" ELSE "continue"

CheckRefusalClosesPage ==
  /\ UNCHANGED pureVars
  /\ pc = "g_refusal"
  /\ UNCHANGED <<context, openContexts, launchMode, everConnected, pages, loginChecked,
                 fsVars, topVars, loginVars, traceVars, elapsed, imageFound,
                 attempts, firstEvent, download, clicks, lastClick, located, savedPath, tool>>
  /\ \E pg \in PollPages :
       /\ pollPage' = pg
       /\ LET v == RefusalVerdict(pg) IN
            /\ page' = (v # "refused")
            /\ IF v = "error" THEN Finish(UntypedError("page.evaluate failed"), "none")
               ELSE IF v = "refused"
                    THEN Finish(GenerationError(
                           "Gemini refused to generate this image. Try a different prompt."),
                           "none")
                    ELSE Goto("g_image")

\* the refusal evaluation of one poll, on the page as it is then
CheckRefusal ==
  /\ UNCHANGED pureVars
  /\ pc = "g_refusal"
  /\ UNCHANGED <<clientVars, fsVars, topVars, loginVars, traceVars, elapsed, imageFound,
                 attempts, firstEvent, download, clicks, lastClick, located, savedPath, tool>>
  /\ \E pg \in PollPages :
       /\ pollPage' = pg
       /\ LET v == RefusalVerdict(pg) IN
            IF v = "error" THEN Finish(UntypedError("page.evaluate failed"), "none")
            ELSE IF v = "refused"
                 THEN Finish(GenerationError(
                        "Gemini refused to generate this image. Try a different prompt."), "none")
                 ELSE Goto("g_image")

\* img.image.loaded isVisible().catch(() => false)
CheckImage ==
  /\ UNCHANGED pureVars
  /\ pc = "g_image"
  /\ UNCHANGED <<clientVars, fsVars, topVars, loginVars, traceVars, elapsed, pollPage,
                 attempts, firstEvent, download, clicks, lastClick, located, savedPath, tool>>
  /\ IF pollPage.image
     THEN /\ imageFound' = TRUE
          /\ Goto("g_mkdir")
     ELSE /\ UNCHANGED imageFound
          /\ Goto("g_loop")

\* absPath = path.resolve(outputPath); mkdir -p of its directory
MakeOutputDir ==
  /\ UNCHANGED pureVars
  /\ pc = "g_mkdir"
  /\ UNCHANGED <<clientVars, files, tmpFile, topVars, loginVars, traceVars, pollPage, imageFound,
                 attempts, firstEvent, download, clicks, lastClick, located, savedPath, tool>>
  /\ dirs' = dirs \cup {Dirname(Resolve(args.outputPath))}
  /\ elapsed' = 0
  /\ Goto("g_btnwait")

\* downloadBtn.waitFor({ state: 'visible', timeout: 15000 })
WaitDownloadButton ==
  /\ UNCHANGED pureVars
  /\ pc = "g_btnwait"
  /\ UNCHANGED <<clientVars, fsVars, topVars, loginVars, workVars, navigated, failure, signal>>
  /\ \E ctl \in DownloadControls :
       IF ctl.primary
       THEN /\ Goto("g_attempt")
            /\ UNCHANGED seenAtWait
       ELSE /\ Finish(UntypedError("locator.waitFor: Timeout 15000ms exceeded."), "btn_wait")
            /\ seenAtWait' = ctl

\* clickDownloadButton: the designated control, else the generic one, else throw
ClickDownloadButton(ctl) ==
  IF ctl.primary THEN "primary"
  ELSE IF ctl.fallback THEN "fallback" ELSE "not_found"

DownloadLoopThreeAttempts(a) == a < DownloadMaxAttempts

\* catch { if (attempt === 0) retry; else throw }: a is the failed pass's counter
DownloadLoopRetries(a) == a + 1 < DownloadMaxAttempts

\* one pass of the download loop: Promise.all([waitForEvent('download'), click]).
\* The pass fails when the click finds no control (clickDownloadButton throws
\* GenerationError('Could not find download button')), when the click itself
\* fails, or when no download event arrives in 30 s; the catch swallows
\* whichever error it was.
DownloadAttempt ==
  /\ UNCHANGED pureVars
  /\ pc = "g_attempt"
  /\ UNCHANGED <<clientVars, fsVars, topVars, loginVars, traceVars, elapsed, pollPage, imageFound,
                 savedPath, tool>>
  /\ attempts' = attempts + 1
  /\ \E ctl \in DownloadControls, clickOk \in BOOLEAN, event \in BOOLEAN :
       LET c == ClickDownloadButton(ctl)
           clicked == c # "not_found" /\ clickOk
       IN /\ lastClick' = c
          /\ located' = (located \/ c # "not_found")
          /\ clicks' = IF clicked THEN clicks + 1 ELSE clicks
          /\ firstEvent' = IF attempts = 0 THEN clicked /\ event ELSE firstEvent
          /\ download' = (clicked /\ event)
          /\ IF clicked /\ event
             THEN Goto("g_save")
             ELSE IF DownloadLoopRetries(attempts)
                  THEN Goto("g_attempt")
                  ELSE Finish(GenerationError(
                         "Download button did not trigger a file download"),
                         "download_retry")

SaveTarget(p) == Resolve(p)

\* download.saveAs(absPath).  By now the engine knows whether the download
\* came to an end or failed; saveAs of a failed download may reject, as it
\* may for any other reason.
SaveDownload ==
  /\ UNCHANGED pureVars
  /\ pc = "g_save"
  /\ UNCHANGED <<clientVars, dirs, tmpFile, topVars, loginVars, navigated, seenAtWait, failure,
                 elapsed, pollPage,
                 imageFound, attempts, firstEvent, download, clicks, lastClick, located, tool>>
  /\ \E ok \in BOOLEAN, sig \in {"none", "canceled"} :
       /\ signal' = sig
       /\ IF ok
          THEN /\ files' = [files EXCEPT ![SaveTarget(args.outputPath)] = "orig"]
               /\ savedPath' = SaveTarget(args.outputPath)
               /\ Goto("g_failure")
          ELSE /\ Finish(UntypedError("download.saveAs failed"), "none")
               /\ UNCHANGED <<files, savedPath>>

CheckDownloadFailureIgnored ==
  /\ UNCHANGED pureVars
  /\ pc = "g_failure"
  /\ UNCHANGED <<clientVars, fsVars, topVars, loginVars, workVars, navigated, seenAtWait, signal>>
  /\ LET reason == signal IN
       /\ failure' = IF reason # "none" THEN "set" ELSE "clear"
       /\ Goto("g_watermark")

\* const failure = await download.failure(); if (failure) throw
CheckDownloadFailure ==
  /\ UNCHANGED pureVars
  /\ pc = "g_failure"
  /\ UNCHANGED <<clientVars, fsVars, topVars, loginVars, workVars, navigated, seenAtWait, signal>>
  /\ LET reason == signal IN
       IF reason # "none"
       THEN /\ failure' = "set"
            /\ Finish(GenerationError("Download failed: ${failure}"), "none")
       ELSE /\ failure' = "clear"
            /\ Goto("g_watermark")

\* removeWatermark on a file with content orig, a temporary output left as
\* stale, and a tool that does o: what the file and the temporary output hold
\* afterwards, and whether the function threw
RemoveWatermarkThrows(orig, stale, o) ==
  IF ~o.script THEN [file |-> orig, tmp |-> stale, threw |-> FALSE]
  ELSE LET written == IF o.tmp = "none" THEN stale ELSE o.tmp IN
       IF o.exit = "zero"
       THEN IF written # "none"
            THEN [file |-> written, tmp |-> "none", threw |-> FALSE]
            ELSE [file |-> orig, tmp |-> "none", threw |-> FALSE]
       ELSE [file |-> orig, tmp |-> "none", threw |-> TRUE]

RemoveWatermarkLeavesPartial(orig, stale, o) ==
  IF ~o.script THEN [file |-> orig, tmp |-> stale, threw |-> FALSE]
  ELSE LET written == IF o.tmp = "none" THEN stale ELSE o.tmp IN
       IF o.exit = "zero"
       THEN IF written # "none"
            THEN [file |-> written, tmp |-> "none", threw |-> FALSE]
            ELSE [file |-> orig, tmp |-> "none", threw |-> FALSE]
       ELSE [file |-> orig, tmp |-> written, threw |-> FALSE]

\* removeWatermark: the tool writes to tmpOut, never to filePath
RemoveWatermark(orig, stale, o) ==
  IF ~o.script THEN [file |-> orig, tmp |-> stale, threw |-> FALSE]
  ELSE LET written == IF o.tmp = "none" THEN stale ELSE o.tmp IN
       IF o.exit = "zero"
       THEN \* if (fs.existsSync(tmpOut)) fs.renameSync(tmpOut, filePath)
            IF written # "none"
            THEN [file |-> written, tmp |-> "none", threw |-> FALSE]
            ELSE [file |-> orig, tmp |-> "none", threw |-> FALSE]
       ELSE \* catch: if (fs.existsSync(tmpOut)) fs.unlinkSync(tmpOut)
            [file |-> orig, tmp |-> "none", threw |-> FALSE]

\* await this.removeWatermark(absPath)
RunRemoveWatermark ==
  /\ UNCHANGED pureVars
  /\ pc = "g_watermark"
  /\ UNCHANGED <<clientVars, dirs, topVars, loginVars, traceVars, elapsed, pollPage, imageFound,
                 attempts, firstEvent, download, clicks, lastClick, located, savedPath>>
  /\ \E o \in ToolOutcomes :
       LET p == Resolve(args.outputPath)
           r == RemoveWatermark(files[p], tmpFile, o)
       IN /\ tool' = o
          /\ files' = [files EXCEPT ![p] = r.file]
          /\ tmpFile' = r.tmp
          /\ IF r.threw THEN Finish(UntypedError("removeWatermark failed"), "none")
             ELSE Goto("g_result")

\* fs.statSync(absPath), getImageDimensions, return { imagePath: absPath, ... }
ReturnResult ==
  /\ UNCHANGED pureVars
  /\ pc = "g_result"
  /\ UNCHANGED <<clientVars, fsVars, topVars, loginVars, genVars>>
  /\ IF files[Resolve(args.outputPath)] = "absent"
     THEN Finish(UntypedError("ENOENT: no such file or directory, stat"), "none")
     ELSE Finish(Returned(Resolve(args.outputPath)), "none")

----------------------------------------------------------------------------
(* Calls on a stateful client *)

\* no top-level call is running, and the record of the last one is dropped
TopIdle ==
  /\ top' = "none"
  /\ topPending' = Pending
  /\ topBase' = 0
  /\ topDisconnects' = 0

CallConnect ==
  /\ UNCHANGED pureVars
  /\ pc = "idle" /\ top = "none"
  /\ openContexts < MaxContexts
  /\ \E h \in HeadlessOptions :
       Invoke("connect", [NoArgs EXCEPT !.headless = h], "c_launch")
  /\ TopIdle
  /\ UNCHANGED <<clientVars, fsVars>>

CallGenerateImage ==
  /\ UNCHANGED pureVars
  /\ pc = "idle" /\ top = "none"
  /\ \E t \in TimeoutOptions, p \in OutputPaths :
       Invoke("generateImage", [NoArgs EXCEPT !.timeout = t, !.outputPath = p], "g_page")
  /\ TopIdle
  /\ UNCHANGED <<clientVars, fsVars>>

CallDisconnect ==
  /\ UNCHANGED pureVars
  /\ pc = "idle" /\ top = "none"
  /\ Invoke("disconnect", NoArgs, "d_close")
  /\ TopIdle
  /\ UNCHANGED <<clientVars, fsVars>>

----------------------------------------------------------------------------
(* lib.ts: the top-level generateImage, on a client of its own *)

\* const client = new GeminiClient(); try { await client.connect({ headless })
TopStart ==
  /\ UNCHANGED pureVars
  /\ pc = "idle" /\ top = "none"
  /\ ~context
  /\ openContexts < MaxContexts
  /\ \E h \in HeadlessOptions :
       Invoke("connect", [NoArgs EXCEPT !.headless = h], "c_launch")
  /\ top' = "connect"
  /\ topPending' = Pending
  /\ topBase' = openContexts
  /\ topDisconnects' = 0
  /\ UNCHANGED <<clientVars, fsVars>>

TopAfterConnectNoFinally ==
  /\ UNCHANGED pureVars
  /\ pc = "idle" /\ top = "connect"
  /\ UNCHANGED <<clientVars, fsVars, topBase, topDisconnects>>
  /\ IF res.kind = "ok"
     THEN /\ \E t \in TimeoutOptions, p \in OutputPaths :
               Invoke("generateImage", [args EXCEPT !.timeout = t, !.outputPath = p], "g_page")
          /\ top' = "generate"
          /\ UNCHANGED topPending
     ELSE /\ top' = "none"
          /\ topPending' = res
          /\ op' = "top.generateImage"
          /\ UNCHANGED <<pc, args, res, fault, repeated, prevFailed, loginVars, genVars>>

\* connect has returned: go on to client.generateImage(prompt, outputPath,
\* options), or, if it threw, to the finally block.  The timeout and the
\* output path are read first here, so they are drawn here.
TopAfterConnect ==
  /\ UNCHANGED pureVars
  /\ pc = "idle" /\ top = "connect"
  /\ UNCHANGED <<clientVars, fsVars, topBase, topDisconnects>>
  /\ IF res.kind = "ok"
     THEN /\ \E t \in TimeoutOptions, p \in OutputPaths :
               Invoke("generateImage", [args EXCEPT !.timeout = t, !.outputPath = p], "g_page")
          /\ top' = "generate"
          /\ UNCHANGED topPending
     ELSE /\ Invoke("disconnect", args, "d_close")
          /\ top' = "finally"
          /\ topPending' = res

\* generateImage has returned or thrown: finally { await client.disconnect() }
TopAfterGenerate ==
  /\ UNCHANGED pureVars
  /\ pc = "idle" /\ top = "generate"
  /\ UNCHANGED <<clientVars, fsVars, topBase, topDisconnects>>
  /\ Invoke("disconnect", args, "d_close")
  /\ top' = "finally"
  /\ topPending' = res

\* the finally block is done: deliver the result or rethrow the error
TopReturn ==
  /\ UNCHANGED pureVars
  /\ pc = "idle" /\ top = "finally"
  /\ UNCHANGED <<clientVars, fsVars, topBase, topDisconnects, loginVars, genVars>>
  /\ top' = "none"
  /\ topPending' = Pending
  /\ op' = "top.generateImage"
  /\ res' = IF res.kind = "ok" THEN topPending ELSE res
  /\ UNCHANGED <<pc, args, fault, repeated, prevFailed>>

----------------------------------------------------------------------------
Next ==
  \/ CallConnect
  \/ CallGenerateImage
  \/ CallDisconnect
  \/ TopStart
  \/ TopAfterConnect
  \/ TopAfterGenerate
  \/ TopReturn
  \/ BrowserConnect
  \/ BrowserDisconnect
  \/ ConnectGoto
  \/ HandleCookieConsent
  \/ EnsureLoggedInFirst
  \/ EnsureLoggedInPoll
  \/ GenerateGoto
  \/ DismissOverlays
  \/ SubmitPrompt
  \/ WaitLoop
  \/ CheckRefusal
  \/ CheckImage
  \/ MakeOutputDir
  \/ WaitDownloadButton
  \/ DownloadAttempt
  \/ SaveDownload
  \/ CheckDownloadFailure
  \/ RunRemoveWatermark
  \/ ReturnResult

Spec == Init /\ [][Next]_vars

\* a step inside a call that has begun: an await that settles, or the
\* continuation of the top-level function after one
Step ==
  \/ TopAfterConnect \/ TopAfterGenerate \/ TopReturn
  \/ BrowserConnect \/ BrowserDisconnect
  \/ ConnectGoto \/ HandleCookieConsent \/ EnsureLoggedInFirst \/ EnsureLoggedInPoll
  \/ GenerateGoto \/ DismissOverlays \/ SubmitPrompt
  \/ WaitLoop \/ CheckRefusal \/ CheckImage
  \/ MakeOutputDir \/ WaitDownloadButton \/ DownloadAttempt
  \/ SaveDownload \/ CheckDownloadFailure \/ RunRemoveWatermark \/ ReturnResult

\* The event loop resumes an async function whenever the promise it awaits
\* settles, and every await of these calls settles (the engine calls carry
\* timeouts): a call that has begun keeps taking steps.  Nothing obliges the
\* caller to begin another call.
FairSpec == Spec /\ WF_vars(Step)

----------------------------------------------------------------------------
(* The pure functions, applied to inputs drawn at the start *)

PureInit ==
  /\ ProgramInit
  /\ answered = FALSE
  /\ dims = ZeroDims
  /\ guidance = <<>>
  /\ \/ probe = "dimensions" /\ imageFile \in ImageFiles /\ error = Ok
     \/ probe = "guidance" /\ imageFile = NoFile /\ error \in GuidanceInputs

CallGetImageDimensions ==
  /\ probe = "dimensions" /\ ~answered
  /\ answered' = TRUE
  /\ dims' = GetImageDimensions(imageFile)
  /\ UNCHANGED <<clientVars, fsVars, ctlVars, topVars, loginVars, genVars,
                 probe, imageFile, error, guidance>>

CallGetErrorGuidance ==
  /\ probe = "guidance" /\ ~answered
  /\ answered' = TRUE
  /\ guidance' = GetErrorGuidance(error)
  /\ UNCHANGED <<clientVars, fsVars, ctlVars, topVars, loginVars, genVars,
                 probe, imageFile, error, dims>>

PureNext == CallGetImageDimensions \/ CallGetErrorGuidance

PureSpec == PureInit /\ [][PureNext]_vars

----------------------------------------------------------------------------
(* Properties *)

\* a call of the client operation o has completed and nothing has begun since
Completed(o) == pc = "idle" /\ op = o

AbsPath == Resolve(args.outputPath)

\* C1: whenever the top-level generateImage has returned or thrown, whatever
\* step failed, its finally block has run disconnect, the client holds no
\* context or page, and no context the call opened is still open.
C1_DisconnectOnEveryExit ==
  (Completed("top.generateImage") /\ top = "none")
    => /\ topDisconnects >= 1
       /\ ~context /\ ~page
       /\ openContexts = topBase

\* C1 witness: a top-level call that launched a context and then failed in
\* generateImage has returned, after one disconnect.
C1_Witness ==
  /\ Completed("top.generateImage") /\ top = "none"
  /\ res.code = "GENERATION_ERROR"
  /\ topDisconnects = 1
  /\ openContexts = topBase

\* C2: every completed disconnect, whether or not a context was held, before
\* any connect or directly after another disconnect, returned without raising
\* and left the client with neither a context nor a page.
C2_DisconnectIdempotent ==
  Completed("disconnect") => (res = Ok /\ ~context /\ ~page)

\* C2 witness: a second disconnect in a row, on a client that had connected.
C2_Witness ==
  /\ Completed("disconnect") /\ repeated /\ everConnected
  /\ res = Ok /\ ~context /\ ~page

DownloadSteps == {"g_mkdir", "g_btnwait", "g_attempt", "g_save", "g_failure",
                  "g_watermark", "g_result"}

\* C3: a poll whose refusal check finds a refusal phrase ends generateImage
\* with GENERATION_ERROR before any download step, also when the image is
\* visible in that poll; the image check of a poll is reached only after the
\* refusal check of that poll found nothing, and so are the download steps.
C3_RefusalTakesPrecedence ==
  /\ (Completed("generateImage") /\ pollPage.refusal = "phrase")
       => /\ res.code = "GENERATION_ERROR"
          /\ ~imageFound /\ attempts = 0 /\ clicks = 0 /\ savedPath = <<>>
  /\ (pc = "g_image") => pollPage.refusal = "none"
  /\ (pc \in DownloadSteps) => (pollPage.refusal = "none" /\ pollPage.image)

\* C3 witness: a poll saw a refusal phrase and a visible image, and the call
\* failed with GENERATION_ERROR.
C3_Witness ==
  /\ Completed("generateImage")
  /\ pollPage = [refusal |-> "phrase", image |-> TRUE]
  /\ res.code = "GENERATION_ERROR"

\* C4: the login loop makes at most 60 polls; while it runs every poll so far
\* found no login; it returns success at the first poll that finds the login
\* (N failed polls, success at poll N + 1); it fails with AUTH_ERROR exactly
\* when all 60 polls found none.
C4_LoginWait ==
  /\ loginPolls <= LoginMaxAttempts
  /\ (pc = "c_poll") => failedPolls = loginPolls
  /\ (Completed("connect") /\ res.kind = "ok" /\ loginPolls > 0)
       => (failedPolls = loginPolls - 1 /\ PollLoggedIn(loginPage))
  /\ (Completed("connect") /\ res.code = "AUTH_ERROR")
       => (loginPolls = LoginMaxAttempts /\ failedPolls = LoginMaxAttempts)
  /\ (Completed("connect") /\ failedPolls = LoginMaxAttempts)
       => res = AuthenticationError("Login timeout after 5 minutes.")

\* C4 witness: 59 polls found no login and the 60th, the last one allowed, did.
C4_Witness ==
  /\ Completed("connect") /\ res.kind = "ok"
  /\ failedPolls = LoginMaxAttempts - 1
  /\ loginPolls = LoginMaxAttempts

\* C5: the download loop makes at most 2 passes and at most one click per
\* pass; a first pass that yields the download event is the only one; a first
\* pass that yields none is followed by exactly one more; after a download
\* the file is saved at the resolved output path, and the call then returns
\* that path unless saveAs or the failure signal reports a failed download;
\* two failed passes end the call with GENERATION_ERROR.
C5_DownloadRetry ==
  /\ attempts <= DownloadMaxAttempts /\ clicks <= attempts
  /\ firstEvent => (attempts = 1 /\ clicks = 1 /\ download)
  /\ (attempts >= 1 /\ ~firstEvent /\ pc # "g_attempt") => attempts = DownloadMaxAttempts
  /\ (pc \in {"g_failure", "g_watermark", "g_result"})
       => (download /\ savedPath = AbsPath /\ files[AbsPath] # "absent")
  /\ (Completed("generateImage") /\ download)
       => \/ /\ res.kind = "ok" /\ res.imagePath = AbsPath /\ savedPath = AbsPath
             /\ files[AbsPath] # "absent"
          \/ res = UntypedError("download.saveAs failed")
          \/ res = GenerationError("Download failed: ${failure}")
  /\ (Completed("generateImage") /\ attempts >= 1 /\ ~download)
       => /\ attempts = DownloadMaxAttempts
          /\ res = GenerationError("Download button did not trigger a file download")

\* C5 witness: the first pass yielded no download, the second did, and the
\* call returned the resolved form of a relative output path.
C5_Witness ==
  /\ Completed("generateImage") /\ res.kind = "ok"
  /\ attempts = 2 /\ ~firstEvent /\ download
  /\ ~IsAbsolute(args.outputPath)
  /\ res.imagePath = AbsPath /\ savedPath = AbsPath

\* C6 (as claimed): when no pass of the download loop could locate a download
\* control, generateImage fails with a GENERATION_ERROR whose message is not
\* the retry-exhaustion message.
C6_NoControlDistinctMessage ==
  (Completed("generateImage") /\ attempts >= 1 /\ ~located)
    => /\ res.code = "GENERATION_ERROR"
       /\ res.msg # "Download button did not trigger a file download"

\* removeWatermark has been called in this generateImage
WatermarkCalled == tool.exit # "not_called"

\* C7: once removeWatermark has returned, the file holds the downloaded bytes
\* unless the tool exited zero and left the temporary output, and a
\* generateImage that reached removeWatermark returns a result, whatever the
\* tool did.
C7_WatermarkNeverFails ==
  /\ (WatermarkCalled /\ (pc = "g_result" \/ Completed("generateImage")))
       => files[AbsPath] =
            IF tool.script /\ tool.exit = "zero" /\ tool.tmp # "none" THEN tool.tmp ELSE "orig"
  /\ (WatermarkCalled /\ Completed("generateImage"))
       => (res.kind = "ok" /\ res.imagePath = AbsPath)

\* C7 witness: the tool exited non-zero leaving a partial temporary output,
\* the file still holds the downloaded bytes and the call returned a result.
C7_Witness ==
  /\ Completed("generateImage") /\ res.kind = "ok"
  /\ tool = [script |-> TRUE, exit |-> "nonzero", tmp |-> "partial"]
  /\ files[AbsPath] = "orig"

\* C8 (as claimed): generateImage on a client that holds no page fails with
\* an error of code BROWSER_ERROR.
C8_NoPageIsBrowserError ==
  (Completed("generateImage") /\ ~page) => res.code = "BROWSER_ERROR"

\* C9 (as claimed): the top-level generateImage launches the browser visible
\* exactly when the caller passed headless: false; with no headless option it
\* launches headless.
C9_HeadlessByDefault ==
  (top # "none" /\ launchMode # "none")
    => (launchMode = "visible" <=> args.headless = "false")

\* C10 (as claimed): a connect or generateImage that ended because a bound was
\* exhausted (login polls, generation timeout, download-control wait,
\* download retries) threw a typed error.
C10_ExhaustionIsTyped ==
  ((Completed("connect") \/ Completed("generateImage")) /\ fault # "none")
    => (res.kind = "GeminiError" /\ res.code \in TypedCodes)

\* a call is in progress
Running == pc # "idle" \/ top # "none"

\* the generation wait has made no more polls than the timeout allows
WaitBounded ==
  /\ (pc \in {"g_loop", "g_refusal", "g_image"})
       => elapsed < EffectiveTimeout(args.timeout) + PollIntervalMs
  /\ (pc \in {"g_refusal", "g_image"}) => elapsed >= PollIntervalMs
  /\ (Completed("generateImage") /\ fault = "gen_timeout")
       => /\ res = GenerationError("Image generation timed out after ${timeout / 1000}s")
          /\ elapsed >= EffectiveTimeout(args.timeout)
          /\ ~imageFound /\ attempts = 0

\* C11: the generation wait polls only while the elapsed time is below the
\* timeout (120000 ms when none is given), and when it runs out without a
\* refusal or an image generateImage fails with GENERATION_ERROR; every call
\* that has begun (connect, generateImage, disconnect, the top-level
\* generateImage) eventually returns or throws.
C11_WaitBoundedAndTerminates ==
  /\ []WaitBounded
  /\ (Running ~> ~Running)

\* C11 witness: with no timeout given, 40 polls saw neither refusal nor image
\* and the call failed with the timeout error.
C11_Witness ==
  /\ Completed("generateImage") /\ fault = "gen_timeout"
  /\ ~args.timeout.given
  /\ elapsed = DefaultTimeoutMs
  /\ res.code = "GENERATION_ERROR"

\* C12 (as claimed): the engine never holds more than one context launched by
\* this client, whatever the order of connect / generateImage / disconnect,
\* and a connect that got as far as its fresh page holds exactly that page.
C12_OneContextOnePage ==
  /\ openContexts <= 1
  /\ (context /\ page) => pages = 1
  /\ (Completed("connect") /\ res.kind = "ok") => (context /\ page /\ pages = 1)

\* what the read has to yield as described: the IHDR fields of a file with a
\* whole PNG header, the frame size of a JPEG, the zero pair for anything else
HasPngHeader(bytes) == Len(bytes) >= 24 /\ SubSeq(bytes, 1, 8) = PngSignature

HasJpegFrame(bytes) ==
  /\ Len(bytes) >= 2 /\ bytes[1] = 255 /\ bytes[2] = 216
  /\ FrameMarkers(bytes) # {}

DescribedDimensions(f) ==
  IF ~f.readable THEN ZeroDims
  ELSE IF HasPngHeader(f.bytes)
       THEN [width |-> ReadUInt32BE(f.bytes, 16), height |-> ReadUInt32BE(f.bytes, 20)]
       ELSE IF HasJpegFrame(f.bytes)
            THEN LET i == FirstOf(FrameMarkers(f.bytes)) IN
                 [width |-> ReadUInt16BE(f.bytes, i + 7),
                  height |-> ReadUInt16BE(f.bytes, i + 5)]
            ELSE ZeroDims

\* C13 (as claimed): getImageDimensions returns the width and height at
\* offsets 16 and 20 of a PNG with a valid header, the frame size (height
\* stored before width) of a JPEG, and {0, 0} for every other or cut-off byte
\* sequence and for a file that cannot be read.
C13_DimensionsOrZero ==
  (probe = "dimensions" /\ answered) => dims = DescribedDimensions(imageFile)

\* a generateImage call has passed its navigation
PastNavigation == op = "generateImage" /\ pc \notin {"g_page", "idle"}

\* C14: no step of generateImage changes the context or the page the client
\* holds, so calls made one after the other on a connected client run on the
\* same context and page; every call navigates to a fresh chat before
\* anything else; a call that failed with GENERATION_ERROR has left the
\* client connected, and the generateImage called next navigates on the
\* same page.
C14_StatefulClient ==
  /\ [](/\ PastNavigation => (navigated /\ page /\ context)
        /\ (Completed("generateImage") /\ res.code = "GENERATION_ERROR")
             => (navigated /\ page /\ context)
        /\ (pc = "g_overlay" /\ prevFailed) => (navigated /\ page /\ context))
  /\ [][(op = "generateImage" /\ pc # "idle") => UNCHANGED browserVars]_vars

\* C14 witness: on a client used call by call, a generateImage directly
\* following one that failed with GENERATION_ERROR has navigated on the page
\* the client still holds.
C14_Witness ==
  /\ top = "none" /\ op = "generateImage" /\ pc = "g_overlay"
  /\ prevFailed /\ navigated /\ page /\ context

\* getErrorGuidance has been applied to a value
Explained == probe = "guidance" /\ answered

\* the text is the error's message, an empty line, "Recovery steps:" and the
\* steps of exactly the error's kind
RecoveryTextOf(e, text) ==
  /\ Len(text) > 3
  /\ text[1] = e.msg /\ text[2] = "" /\ text[3] = "Recovery steps:"
  /\ SubSeq(text, 4, Len(text)) = RecoverySteps(e.code)
  /\ \A c \in TypedCodes \ {e.code} : SubSeq(text, 4, Len(text)) # RecoverySteps(c)

\* C15 (as claimed): getErrorGuidance returns a multi-line recovery text of
\* its own for each of the three error kinds, and the default generic text
\* for every other value: one that is no GeminiError, and a GeminiError whose
\* code is none of the three.
C15_UnrecognizedGetGeneric ==
  Explained =>
    IF error.kind = "GeminiError" /\ error.code \in TypedCodes
    THEN RecoveryTextOf(error, guidance)
    ELSE guidance = GenericGuidance

\* C15 (amended): getErrorGuidance returns a multi-line recovery text of its
\* own for each of the three error kinds, the default generic text for every
\* value that is no GeminiError, and for a GeminiError whose code is none of
\* the three the error's own message, nothing added.
C15_GuidancePerKind ==
  Explained =>
    IF error.kind = "GeminiError"
    THEN IF error.code \in TypedCodes
         THEN RecoveryTextOf(error, guidance)
         ELSE guidance = <<error.msg>>
    ELSE guidance = GenericGuidance

\* C15 witness: a GeminiError with a code of its own was explained by its
\* message alone, which is not the generic text.
C15_Witness ==
  /\ Explained
  /\ error = GeminiError("Download failed: canceled", "RATE_LIMIT")
  /\ guidance = <<"Download failed: canceled">>
  /\ guidance # GenericGuidance

\* positions of generateImage after the prompt has been submitted
AfterSubmit == {"g_loop", "g_refusal", "g_image"} \cup DownloadSteps

\* the order inside connect and inside generateImage: everything after the
\* navigation follows it; a download control is clicked only after a poll saw
\* the image and no refusal; removeWatermark runs only on a file saved at the
\* resolved path with the failure signal clear; a result is returned only
\* after removeWatermark, and names the resolved absolute path
StepsInOrder ==
  /\ (pc \in {"c_consent", "c_login0", "c_poll"}) => (navigated /\ ~loginChecked)
  /\ PastNavigation => navigated
  /\ (op = "generateImage" /\ (attempts > 0 \/ clicks > 0))
       => (imageFound /\ pollPage = [refusal |-> "none", image |-> TRUE])
  /\ (op = "generateImage" /\ savedPath # <<>>) => (download /\ clicks > 0)
  /\ (op = "generateImage" /\ failure # "unchecked") => savedPath = AbsPath
  /\ WatermarkCalled => (savedPath = AbsPath /\ failure = "clear")
  /\ (Completed("generateImage") /\ res.kind = "ok")
       => /\ WatermarkCalled
          /\ res.imagePath = AbsPath /\ IsAbsolute(res.imagePath)

C17_LoginCheckErrorsTolerated ==
  (Completed("connect") /\ navigated)
    => \/ res.kind = "ok" /\ ~loginPage.throws
       \/ res.code = "AUTH_ERROR" /\ failedPolls = LoginMaxAttempts

\* C18 (as claimed): an evaluation that throws in a poll of the generation
\* wait counts as "not yet": a generateImage whose last poll threw ended with
\* the timeout, not with the evaluation's error, and a poll that threw never
\* leads on to the download.
C18_PollErrorsSwallowed ==
  /\ (Completed("generateImage") /\ pollPage.refusal = "throws")
       => (fault = "gen_timeout" /\ res.code = "GENERATION_ERROR")
  /\ (pc \in {"g_image"} \cup DownloadSteps) => pollPage.refusal # "throws"

\* logged in as described: a chat input is present and the URL is not on the
\* authentication domain
LoggedInAsDescribed(pg) == pg.input /\ ~pg.accounts

\* C19 (as claimed): the initial login check and the polls apply one
\* predicate: whenever a check has found the login, the page it saw has a
\* chat input and is off the authentication domain, and the other check
\* gives the same page the same verdict.
C19_OneLoginPredicate ==
  (Completed("connect") /\ res.kind = "ok")
    => /\ LoggedInAsDescribed(loginPage)
       /\ InitialLoggedIn(loginPage) = PollLoggedIn(loginPage)

\* C20 (as claimed): when, the image being there, the designated download
\* control is not visible but a generic one is, generateImage clicks the
\* generic control; it does not give up over the designated one.
C20_FallbackWhenDesignatedAbsent ==
  /\ (op = "generateImage" /\ seenAtWait = [primary |-> FALSE, fallback |-> TRUE])
       => (lastClick = "fallback" /\ clicks > 0)
  /\ (Completed("generateImage") /\ fault = "btn_wait") => ~seenAtWait.fallback

\* removeWatermark has returned in the running or the last generateImage
WatermarkReturned == WatermarkCalled /\ (pc = "g_result" \/ Completed("generateImage"))

\* C21: whenever removeWatermark has returned, nothing is left at
\* <filePath>.clean.png: after a tool run that exited zero and wrote its
\* output the file holds that output whole (renamed over it), and after a
\* non-zero exit, a timeout or a failure to start the tool the file holds the
\* downloaded bytes and whatever the tool had written is deleted; the file
\* never holds a partial output.
C21_TempOutputGone ==
  WatermarkReturned
    => /\ tmpFile = "none"
       /\ files[AbsPath] \in {"orig", "clean"}
       /\ (tool.exit = "zero" /\ tool.tmp = "clean") => files[AbsPath] = "clean"
       /\ (tool.exit \in {"nonzero", "timeout", "spawn_error"}) => files[AbsPath] = "orig"

\* C21 witness: the tool ran into its timeout with a partial output written;
\* removeWatermark has returned, the partial output is gone and the file
\* holds the downloaded bytes.
C21_Witness ==
  /\ pc = "g_result" /\ WatermarkCalled
  /\ tool = [script |-> TRUE, exit |-> "timeout", tmp |-> "partial"]
  /\ tmpFile = "none" /\ files[AbsPath] = "orig"

\* C22 (as claimed): whenever the engine holds a failure signal for the
\* download, generateImage ends with GENERATION_ERROR, removeWatermark is not
\* called and no result is returned.
C22_FailureSignalIsGenerationError ==
  /\ (signal # "none") => (~WatermarkCalled /\ pc \notin {"g_watermark", "g_result"})
  /\ (Completed("generateImage") /\ signal # "none")
       => (res.kind # "ok" /\ res.code = "GENERATION_ERROR")

\* the steps of generateImage up to and including the wait for the image
BeforeImage == {"g_page", "g_overlay", "g_submit", "g_loop", "g_refusal", "g_image"}

\* the last generateImage threw out of its wait loop: refusal or timeout
WaitFailed ==
  /\ Completed("generateImage")
  /\ res \in {GenerationError("Gemini refused to generate this image. Try a different prompt."),
              GenerationError("Image generation timed out after ${timeout / 1000}s")}

\* C23: a generateImage that fails in the generation wait (refusal or
\* timeout) has written nothing: no step it takes up to and including the
\* failing one changes the directories or files on disk, it has made no
\* download click nor attempt, saved nothing, and has not called the
\* watermark tool.
C23_NothingWrittenOnWaitFailure ==
  /\ [](WaitFailed => /\ ~imageFound
                      /\ attempts = 0 /\ clicks = 0 /\ ~download
                      /\ savedPath = <<>>
                      /\ ~WatermarkCalled)
  /\ [][(op' = "generateImage" /\ (pc' \in BeforeImage \/ WaitFailed'))
          => UNCHANGED fsVars]_vars

\* C23 witness: on a disk where neither the output directory nor the output
\* file exists, a generateImage has timed out after polling.
C23_Witness ==
  /\ WaitFailed
  /\ res = GenerationError("Image generation timed out after ${timeout / 1000}s")
  /\ elapsed > 0
  /\ Dirname(AbsPath) \notin dirs
  /\ files[AbsPath] = "absent"
  /\ clicks = 0 /\ ~WatermarkCalled

\* the last connect threw after the launch: in the navigation, or with
\* AUTH_ERROR out of the login wait
ConnectFailedAfterLaunch ==
  /\ Completed("connect")
  /\ \/ res = UntypedError("page.goto failed")
     \/ res.code = "AUTH_ERROR"

\* C24: a connect that fails in the navigation or with AUTH_ERROR leaves the
\* client holding its open context and page; no step of any operation but
\* disconnect gives up the held context or page or closes a context; and
\* disconnect, called on a client that holds a context, closes that context
\* and leaves the client holding neither context nor page.
C24_FailedConnectKeepsContext ==
  /\ [](ConnectFailedAfterLaunch => (context /\ page /\ openContexts >= 1))
  /\ [][pc # "d_close" => /\ context => context'
                          /\ page => page'
                          /\ openContexts' >= openContexts]_vars
  /\ [][(pc = "d_close" /\ context) => /\ ~context' /\ ~page'
                                       /\ openContexts' = openContexts - 1]_vars
  /\ [](Completed("disconnect") => (~context /\ ~page))

\* C24 witness: on a client of its own (no top-level call), connect has thrown
\* AUTH_ERROR after sixty login polls and the one launched context and its
\* page are still held and open.
C24_Witness ==
  /\ top = "none"
  /\ ConnectFailedAfterLaunch /\ res.code = "AUTH_ERROR"
  /\ loginPolls = LoginMaxAttempts
  /\ context /\ page /\ openContexts = 1

====
